---- MODULE Spec2Model ----
(***************************************************************************)
(* PENTrack: the trajectory integrator TParticle::Integrate, its collision *)
(* resolver TParticle::CheckHit and the containment query of TGeometry.    *)
(*                                                                         *)
(* The world is one-dimensional (the z axis), time runs in integer ticks   *)
(* and a state vector y is the record [z, v].  Lengths are scaled so that  *)
(* MAX_SAMPLE_DIST is 2 units; a collision coordinate s is the fraction    *)
(* s/SDen.                                                                 *)
(***************************************************************************)
EXTENDS Integers, Sequences, FiniteSets, TLC

----------------------------------------------------------------------------
(* Program constants *)

ID_UNKNOWN == 0
ID_NOT_FINISH == -1
ID_HIT_BOUNDARIES == -2
ID_NRERROR == -3
ID_DECAYED == -4
ID_INITIAL_NOT_FOUND == -5

DefaultID == 1          \* the default solid
MAX_SAMPLE_DIST == 2
REFLECT_TOLERANCE == 1
ITER_MAX == 99          \* "iteration > 99"
c_0 == 3                \* speed of light
gravconst == 1
m == 2                  \* particle mass
mu == 1                 \* magnetic moment
FirstStep == 2          \* 0.001 in "h = 0.001/|v|"

----------------------------------------------------------------------------
(* Bounds of the model *)

MaxSolidID == 3         \* solids 2..MaxSolidID have a mesh
MaxNstep == 2           \* Nstep is counted up to here
MaxRay == 2             \* crossings of the containment ray
SDen == 2               \* s is a multiple of 1/SDen
WorldSize == 5          \* bounding box is -WorldSize..WorldSize
Infinity == 1000        \* beyond every time of the model
MaxDefs == 4            \* entries of the [GEOMETRY] section
MaxHnext == 2           \* largest step size the stepper suggests

SolidIDs == 2..MaxSolidID
NoField == "none"
RampField == "ramp"

----------------------------------------------------------------------------
(* Arithmetic helpers *)

Abs(a) == IF a < 0 THEN -a ELSE a
Max2(a, b) == IF a >= b THEN a ELSE b
Min2(a, b) == IF a <= b THEN a ELSE b
SetMax(S) == CHOOSE e \in S : \A o \in S : o <= e

----------------------------------------------------------------------------
(* State *)

VARIABLES
    ID,             \* particle fate
    tau,            \* life time
    maxtraj,        \* max. simulated trajectory length
    tstart, tend,   \* start and stop time
    ystart, yend,   \* state vector before and after integration
    polstart, polend,
    Hmax,           \* max total energy
    lend,           \* trajectory length
    Nhit, Nstep,
    currentsolids,  \* IDs of the solids the particle is inside
    field,          \* the field manager handed to Integrate
    tmax,           \* argument of Integrate
    output,         \* TOutput: the toggles and the snapshot times
    x, y,           \* integration time and state (shared with the stepper)
    x1, y1, x2, y2, \* the current piece of the step
    polarisation,
    h,              \* step size for the next step
    nextsnapshot,   \* index into output.snapshottimes
    stepper,        \* last step: [xold, yold, hdid, hnext]
    pc,             \* position in Integrate
    call,           \* the CheckHit invocation about to run
    cstack,         \* CheckHit invocations waiting for a recursive call
    changed,        \* what the last top-level CheckHit returned
    threw,          \* the stepper threw in the last step
    crossed,        \* the boundary crossing the last CheckHit call resolved
    lastout,        \* <<time of the last record written>>, or <<>>
    emitted,        \* records written by the last operation
    inside,         \* the solids the particle is in, as its crossings tell
    geom            \* the TGeometry: its configuration, its solids, the last query

vars == <<ID, tau, maxtraj, tstart, tend, ystart, yend, polstart, polend, Hmax,
          lend, Nhit, Nstep, currentsolids, field, tmax, output, x, y, x1, y1,
          x2, y2, polarisation, h, nextsnapshot, stepper, pc, call, cstack,
          changed, threw, crossed, lastout, emitted, inside, geom>>

\* the start snapshot
startVars == <<tstart, ystart, polstart>>

\* what Integrate only reads
particleVars == <<tau, maxtraj, Nhit, field, tmax, output, geom>>

----------------------------------------------------------------------------
(* Fields and energies *)

\* Time envelope of the magnetic field, in units of 1/RampTime of the full
\* field: 0 before NullFieldTime, linear ramp up, plateau, linear ramp down.
NullFieldTime == 1
RampTime == 3
FullFieldTime == 1
BFieldScale(t) ==
    IF t < NullFieldTime THEN 0
    ELSE IF t < NullFieldTime + RampTime THEN t - NullFieldTime
    ELSE IF t < NullFieldTime + RampTime + FullFieldTime THEN RampTime
    ELSE IF t < NullFieldTime + 2*RampTime + FullFieldTime
         THEN NullFieldTime + 2*RampTime + FullFieldTime - t
    ELSE 0

\* |B| (B[3][0]) of the field manager at time t; the field is uniform in space
Babs(fld, t) == IF fld = NoField THEN 0 ELSE BFieldScale(t)

\* 0.5*m*v^2; every speed of the model is below the relativistic threshold
Ekin(v) == (m * v * v) \div 2

Epot(t, yy, pol, fld) ==
    (IF mu # 0 /\ fld # NoField THEN -pol * mu * Babs(fld, t) ELSE 0)
    + m * gravconst * yy.z

\* (1 - v^2/c^2)^(3/2), the factor rel*(1 - v*v/c^2) of the equation of
\* motion, rounded to the nearest integer
RelFactor(v) ==
    LET d == c_0*c_0 - v*v
    IN  IF d > 0 /\ 4*d*d*d >= c_0*c_0*c_0*c_0*c_0*c_0 THEN 1 ELSE 0

\* dy/dt: gravity is the only force (the field is uniform, no charge)
derivs(yy) == [z |-> yy.v, v |-> RelFactor(yy.v) * (-gravconst)]

----------------------------------------------------------------------------
(* The stepper: integrates derivs tick by tick; dense output on the last step *)

RECURSIVE Advance(_, _)
Advance(yy, n) ==
    IF n = 0 THEN yy
    ELSE IF n > 0
         THEN Advance([z |-> yy.z + derivs(yy).z, v |-> yy.v + derivs(yy).v], n - 1)
         ELSE Advance([z |-> yy.z - derivs(yy).z, v |-> yy.v - derivs(yy).v], n + 1)

dense_out(st, t) == Advance(st.yold, t - st.xold)

NoStep == [xold |-> 0, yold |-> [z |-> 0, v |-> 0], hdid |-> 0, hnext |-> 0]

----------------------------------------------------------------------------
(* Geometry *)

\* start point of the segment inside the bounding box of the world
CheckSegment(p1, p2) == Abs(p1.z) <= WorldSize

\* A collision record: s/SDen along the segment, the solid hit, the normal
Collisions == [s : 0..SDen, ID : SolidIDs, normal : {-1, 1}]

\* colls is ordered by s, ties by ID
CollOrdered(c, d) == c.s < d.s \/ (c.s = d.s /\ c.ID <= d.ID)

\* What the mesh may answer for a segment: no, one or two collisions, the
\* second one on the other side of a solid, at the same s or at the end
CollAnswers ==
    {<<>>} \cup {<<c>> : c \in Collisions}
    \cup {p \in Collisions \X Collisions :
              /\ p[2].normal = -p[1].normal
              /\ p[2].s \in {p[1].s, SDen}
              /\ CollOrdered(p[1], p[2])}

\* Crossings of the containment ray: <<ID, ignored>> in the order found
RayHits == [ID : SolidIDs, ignored : BOOLEAN]
RayAnswers == UNION {[1..n -> RayHits] : n \in 0..MaxRay}

\* One crossing: a solid already in the list leaves it, another one joins it
RayToggle(list, hit) ==
    IF \E i \in 1..Len(list) : list[i].ID = hit.ID
    THEN LET i == CHOOSE j \in 1..Len(list) :
                     list[j].ID = hit.ID /\ \A k \in 1..(j-1) : list[k].ID # hit.ID
         IN  SubSeq(list, 1, i - 1) \o SubSeq(list, i + 1, Len(list))
    ELSE Append(list, hit)

RECURSIVE RayFold(_, _)
RayFold(list, c) ==
    IF c = <<>> THEN list ELSE RayFold(RayToggle(list, Head(c)), Tail(c))

\* TGeometry::GetSolids: the default solid, then every solid crossed an odd
\* number of times
GetSolids(c) == RayFold(<<[ID |-> DefaultID, ignored |-> FALSE]>>, c)

SolidSet(list) == {list[i].ID : i \in 1..Len(list)}

----------------------------------------------------------------------------
(* TGeometry: construction from the configuration, and its queries *)

\* The [GEOMETRY] entry with the given ID.  Solids with an even ID are
\* ignored in [1, 2), the others in [0, 1) and [1, 2): at time 0 the odd ones
\* are ignored, at time 1 all of them, at time 2 none.
SolidDef(id) ==
    [ID |-> id,
     ignoretimes |-> IF id % 2 = 0 THEN <<<<1, 2>>>> ELSE <<<<0, 1>>, <<1, 2>>>>]

\* The configurations: up to MaxDefs entries in any order, one of them the
\* default solid
Configs ==
    {c \in UNION {[1..n -> {SolidDef(i) : i \in 1..MaxSolidID}] : n \in 1..MaxDefs} :
        \E i \in 1..Len(c) : c[i].ID = DefaultID}

\* the loop over the entries: the default solid is kept apart, the others
\* are appended to solids in the order of the entries
RECURSIVE ReadSolids(_, _)
ReadSolids(defs, g) ==
    IF defs = <<>> THEN g
    ELSE ReadSolids(Tail(defs),
                    IF Head(defs).ID = DefaultID
                    THEN [g EXCEPT !.defaultsolid = Head(defs)]
                    ELSE [g EXCEPT !.solids = Append(@, Head(defs))])

\* std::unique(solids.begin(), solids.end(), equal IDs) != solids.end():
\* two neighbours of the list have the same ID
UniqueFindsEqual(sol) == \E i \in 1..(Len(sol) - 1) : sol[i].ID = sol[i + 1].ID

NoQuery == [kind |-> "none", x1 |-> 0, x2 |-> 0, prev |-> <<>>, mesh |-> <<>>]

\* a TGeometry under construction from the configuration c
NewGeometry(c) ==
    [pc |-> "config", config |-> c, defaultsolid |-> SolidDef(DefaultID),
     solids |-> <<>>, query |-> NoQuery, colls |-> <<>>, ret |-> FALSE, found |-> <<>>,
     sld |-> 0]

\* TGeometry::GetSolid(ID): the first solid with this ID
GetSolid(sol, id) == sol[CHOOSE i \in 1..Len(sol) :
                            sol[i].ID = id /\ \A j \in 1..(i - 1) : sol[j].ID # id]

\* What the mesh may report for a segment: up to MaxRay crossings of the
\* solids that have a mesh, in any order
MeshHits(sol) == [s : 0..SDen, ID : {sol[i].ID : i \in 1..Len(sol)}]
MeshAnswers(sol) == UNION {[1..n -> MeshHits(sol)] : n \in 0..MaxRay}

\* the hit time lies in an ignore interval taken as closed, [a, b]
IgnoredClosed(sld, ax1, ax2, s) ==
    \E k \in 1..Len(sld.ignoretimes) :
        /\ ax1 * SDen + (ax2 - ax1) * s >= sld.ignoretimes[k][1] * SDen
        /\ ax1 * SDen + (ax2 - ax1) * s <= sld.ignoretimes[k][2] * SDen

\* t = x1 + (x2 - x1)*s lies between any pair of ignore times:
\* t >= first && t < second  (s is s/SDen, so both sides are scaled by SDen)
Ignored(sld, ax1, ax2, s) ==
    \E k \in 1..Len(sld.ignoretimes) :
        /\ ax1 * SDen + (ax2 - ax1) * s >= sld.ignoretimes[k][1] * SDen
        /\ ax1 * SDen + (ax2 - ax1) * s < sld.ignoretimes[k][2] * SDen

\* colls.emplace(it, ignored): the multimap keeps its records ordered, a new
\* one goes behind those that are not behind it
Emplace(cs, e) ==
    LET n == Cardinality({i \in 1..Len(cs) : CollOrdered(cs[i], e)})
    IN  SubSeq(cs, 1, n) \o <<e>> \o SubSeq(cs, n + 1, Len(cs))

RECURSIVE EmplaceAll(_, _, _, _, _)
EmplaceAll(cs, sol, ax1, ax2, c) ==
    IF c = <<>> THEN cs
    ELSE EmplaceAll(Emplace(cs, [s |-> Head(c).s, ID |-> Head(c).ID,
                                 ignored |-> Ignored(GetSolid(sol, Head(c).ID),
                                                     ax1, ax2, Head(c).s)]),
                    sol, ax1, ax2, Tail(c))

\* TGeometry::GetCollisions: the content of colls afterwards, and the
\* value returned; prev is what colls held before
GetCollisions(sol, prev, ax1, ax2, c) ==
    LET cs == EmplaceAll(SubSeq(prev, 1, 0), sol, ax1, ax2, c)
    IN  [colls |-> cs, ret |-> cs # <<>>]

\* TGeometry::GetSolids(t, p) with the crossings c of the test ray
GetSolidsAt(g, at, c) ==
    LET hits == GetCollisions(g.solids, <<>>, at, at, c)
    IN  IF hits.ret
        THEN RayFold(<<[ID |-> g.defaultsolid.ID, ignored |-> FALSE]>>,
                     [i \in 1..Len(hits.colls) |->
                         [ID |-> hits.colls[i].ID, ignored |-> hits.colls[i].ignored]])
        ELSE <<[ID |-> g.defaultsolid.ID, ignored |-> FALSE]>>

\* the comparison by ID alone
CompByID(s1, s2) == s1.ID < s2.ID

\* the comparison of GetSolid(t, p): s1 is "less" than s2 if s1 is ignored,
\* or if s2 is not ignored and has the greater ID
Comp(s1, s2) == s1.ignored \/ (~s2.ignored /\ s1.ID < s2.ID)

\* std::max_element: the first element is the largest so far; an element
\* that the largest so far is less than takes its place
RECURSIVE MaxElement(_, _)
MaxElement(largest, list) ==
    IF list = <<>> THEN largest
    ELSE MaxElement(IF Comp(largest, Head(list)) THEN Head(list) ELSE largest,
                    Tail(list))

\* TGeometry::GetSolid(t, p) with the crossings c of the test ray
GetSolidAt(g, at, c) ==
    LET found == GetSolidsAt(g, at, c) IN MaxElement(Head(found), Tail(found))

----------------------------------------------------------------------------
(* The particle's hooks *)

Flips(pol) == {pol, -pol}

\* OnHit: the particle is transmitted (nothing changes) or reflected (the
\* segment end is reset to its start, the velocity reversed, entering set to
\* leaving; with or without a spin flip).  OnHit is not handed the
\* polarisation of Integrate: the member polend, which derivs reads, is the
\* only polarisation a handler can flip.
OnHit(cx1, cy1, cx2, cy2, pol, leaving, entering) ==
    {[reset |-> FALSE, x2 |-> cx2, y2 |-> cy2, entering |-> entering, polend |-> pol]}
    \cup {[reset |-> TRUE, x2 |-> cx1, y2 |-> [z |-> cy1.z, v |-> -cy1.v],
           entering |-> leaving, polend |-> p] : p \in Flips(pol)}

\* OnStep: nothing happens, or the particle is absorbed in currentsolid
OnStep(cx1, cy1, cx2, cy2, currentsolid, id) ==
    {[changed |-> FALSE, ID |-> id], [changed |-> TRUE, ID |-> currentsolid]}

----------------------------------------------------------------------------
(* TParticle::CheckHit *)

NoCall == [x1 |-> 0, y1 |-> [z |-> 0, v |-> 0], x2 |-> 0, y2 |-> [z |-> 0, v |-> 0],
           it |-> 0]

\* the test without "colls.size() == 1"
LocalisedAnySize(colls, distnormal, it) ==
    \/ /\ colls[1].s * Abs(distnormal) < REFLECT_TOLERANCE * SDen
       /\ (SDen - colls[1].s) * Abs(distnormal) < REFLECT_TOLERANCE * SDen
    \/ it > ITER_MAX

\* the first collision is closer to y1 and y2 than REFLECT_TOLERANCE and is
\* the only one, or the iteration counter passed its maximum
Localised(colls, distnormal, it) ==
    \/ /\ Len(colls) = 1
       /\ colls[1].s * Abs(distnormal) < REFLECT_TOLERANCE * SDen
       /\ (SDen - colls[1].s) * Abs(distnormal) < REFLECT_TOLERANCE * SDen
    \/ it > ITER_MAX

\* erase(*entering) in the place of erase(*leaving)
ExitUpdateEntering(cs, entering, leaving) ==
    IF entering # leaving THEN cs \ {entering} ELSE cs

\* OnHit on every entry, whatever the IDs
EnterAdmitsAny(entering, leaving) == TRUE

\* "check for reflection only, if priority of entered solid is larger than
\* that of current solid" / "if left solids is the solid with highest priority"
EnterAdmits(entering, leaving) == entering > leaving
ExitAdmits(leaving, top) == leaving = top

\* the entered solid is never inserted
EnterUpdateNever(cs, entering, leaving) == cs

\* current-solid set after OnHit on entry and on exit
EnterUpdate(cs, entering, leaving) ==
    IF entering # leaving THEN cs \cup {entering} ELSE cs
ExitUpdate(cs, entering, leaving) ==
    IF entering # leaving THEN cs \ {leaving} ELSE cs

\* (x2 - x1)*s*(1 -+ 0.01*iteration), rounded down to the time grid
CutLen(L, s, pct) == (L * s * pct) \div (SDen * 100)

HitRecord(t, pol1, pol2, leaving, entering) ==
    [kind |-> "hit", t |-> t, pol1 |-> pol1, pol2 |-> pol2,
     leaving |-> leaving, entering |-> entering]

\* What a CheckHit call did about a boundary: the direction ("in", "out",
\* "none"), the solid, whether OnHit was called, whether the particle passed
\* the surface and whether
\* the call ended in an error.  leaving and entering are the solids OnHit
\* was called with.  The rest is what the deciding invocation saw: the number
\* n of collisions, s of the first one, |y2 - y1| and the iteration counter,
\* and for a localised segment with a second collision its s2 and ID2.  The
\* direction "cut" stands for an invocation that bisected.
NoCross == [dir |-> "none", ID |-> 0, hit |-> FALSE, passed |-> FALSE, error |-> FALSE,
            leaving |-> 0, entering |-> 0, n |-> 0, s |-> 0, dn |-> 0, it |-> 0,
            s2 |-> 0, ID2 |-> 0]
Cross(dir, id, hit, passed, leaving, entering) ==
    [NoCross EXCEPT !.dir = dir, !.ID = id, !.hit = hit, !.passed = passed,
                    !.leaving = leaving, !.entering = entering]
CrossError(dir, id) == [NoCross EXCEPT !.dir = dir, !.ID = id, !.error = TRUE]
Seen(cross, colls, c) ==
    [cross EXCEPT !.n = Len(colls), !.s = colls[1].s, !.dn = Abs(c.y2.z - c.y1.z),
                  !.it = c.it,
                  !.s2 = IF Len(colls) > 1 /\ cross.dir # "cut" THEN colls[2].s ELSE 0,
                  !.ID2 = IF Len(colls) > 1 /\ cross.dir # "cut" THEN colls[2].ID ELSE 0]

\* no boundary was dealt with
NoCrossing == crossed' = NoCross /\ UNCHANGED inside

\* The solids the particle is in after the crossing cr, by the crossings
\* alone: an entry that was not reflected adds the solid, such an exit removes
\* it.  The empty set stands for "the geometry answered something no set of
\* solids allows": the entry into a solid the particle is in, the exit from
\* one it is not in, two surfaces in one localised segment, or a crossing
\* without a normal displacement.
Inside(ins, cr) ==
    IF cr.dir \notin {"in", "out"} THEN (IF cr.error THEN {} ELSE ins)
    ELSE IF ins = {} \/ cr.n > 1 THEN {}
    ELSE IF cr.dir = "in"
    THEN (IF cr.ID \in ins THEN {}
          ELSE IF cr.passed /\ ~cr.error THEN ins \cup {cr.ID} ELSE ins)
    ELSE (IF cr.ID \notin ins THEN {}
          ELSE IF cr.passed /\ ~cr.error THEN ins \ {cr.ID} ELSE ins)

\* The end of the localised case: the hit record, then either the return
\* of "changed" or the absorption check in the active solid
AfterHit(c, hit, o, cs, leaving, entering, cross) ==
    LET recs == IF hit /\ output.hitlog
                THEN <<HitRecord(c.x1, polarisation, polarisation, leaving, entering)>>
                ELSE <<>>
    IN  IF o.reset
        THEN {[changed |-> TRUE, x2 |-> o.x2, y2 |-> o.y2, ID |-> ID, cs |-> cs,
               polend |-> o.polend, recs |-> recs, cross |-> cross]}
        ELSE {[changed |-> st.changed, x2 |-> o.x2, y2 |-> o.y2, ID |-> st.ID,
               cs |-> cs, polend |-> o.polend, recs |-> recs, cross |-> cross] :
                  st \in OnStep(c.x1, c.y1, o.x2, o.y2, SetMax(cs), ID)}

\* The localised case of CheckHit for the call c and the collisions colls
HitResults(c, colls) ==
    LET coll == colls[1]
        distnormal == (c.y2.z - c.y1.z) * coll.normal
        hitsolid == coll.ID
        top == SetMax(currentsolids)
        below == SetMax(currentsolids \ {top})
        NoHit == [reset |-> FALSE, x2 |-> c.x2, y2 |-> c.y2, entering |-> hitsolid,
                  polend |-> polend]
        Err(dir) == {[changed |-> TRUE, x2 |-> c.x1, y2 |-> c.y1, ID |-> ID_NRERROR,
                      cs |-> currentsolids, polend |-> polend, recs |-> <<>>,
                      cross |-> CrossError(dir, hitsolid)]}
    IN  IF Len(colls) > 1 /\ coll.ID # colls[2].ID THEN Err("none")
        ELSE IF distnormal < 0
        THEN IF hitsolid \in currentsolids THEN Err("in")
             ELSE IF EnterAdmits(hitsolid, top)
             THEN UNION {AfterHit(c, TRUE, o, EnterUpdate(currentsolids, o.entering, top),
                                  top, hitsolid,
                                  Cross("in", hitsolid, TRUE, o.entering # top,
                                        top, hitsolid)) :
                            o \in OnHit(c.x1, c.y1, c.x2, c.y2, polend, top, hitsolid)}
             ELSE AfterHit(c, FALSE, NoHit, currentsolids, top, hitsolid,
                           Cross("in", hitsolid, FALSE, TRUE, 0, 0))
        ELSE IF distnormal > 0
        THEN IF hitsolid \notin currentsolids THEN Err("out")
             ELSE IF ExitAdmits(hitsolid, top)
             THEN UNION {AfterHit(c, TRUE, o, ExitUpdate(currentsolids, o.entering, hitsolid),
                                  hitsolid,
                                  IF o.entering # hitsolid THEN o.entering ELSE below,
                                  Cross("out", hitsolid, TRUE, o.entering # hitsolid,
                                        hitsolid, below)) :
                            o \in OnHit(c.x1, c.y1, c.x2, c.y2, polend, hitsolid, below)}
             ELSE AfterHit(c, FALSE, NoHit, currentsolids, hitsolid, hitsolid,
                           Cross("out", hitsolid, FALSE, TRUE, 0, 0))
        ELSE Err("none")

\* No collision on the segment: only the absorption check
StepResults(c) ==
    {[changed |-> st.changed, x2 |-> c.x2, y2 |-> c.y2, ID |-> st.ID,
      cs |-> currentsolids, polend |-> polend, recs |-> <<>>, cross |-> NoCross] :
        st \in OnStep(c.x1, c.y1, c.x2, c.y2, SetMax(currentsolids), ID)}

\* The bisection.  A frame is a CheckHit invocation waiting for the call on
\* the piece before the collision (stage "A") or over it (stage "B"); the
\* call on the piece after the collision is the last thing CheckHit does and
\* takes over the caller's x2, y2, so it leaves no frame.
ValidCut(L, cut, from) == cut > from /\ cut < L

SubCall(px1, py1, px2, py2, it) == [x1 |-> px1, y1 |-> py1, x2 |-> px2, y2 |-> py2, it |-> it]

\* a recursive call with the iteration counter of its caller
NextIterationSame(it) == it

\* "iteration+1"
NextIteration(it) == it + 1

\* the last call starting at the first cut, over the collision once more
AfterBOverlap(f, stack) ==
    [local |-> FALSE, call |-> SubCall(f.xb1, f.yb1, f.x2, f.y2, NextIteration(f.it)),
     cstack |-> stack, it |-> f.it]

\* the call on the piece after the collision
AfterB(f, stack) ==
    [local |-> FALSE, call |-> SubCall(f.xb2, f.yb2, f.x2, f.y2, NextIteration(f.it)),
     cstack |-> stack, it |-> f.it]

\* the cut right after the collision point, and the call over the collision
AfterA(f, stack) ==
    LET xnew == f.x1 + CutLen(f.x2 - f.x1, f.s, 100 + f.it)
        ynew == dense_out(stepper, xnew)
    IN  IF xnew > f.xb1 /\ xnew < f.x2
        THEN [local |-> FALSE, call |-> SubCall(f.xb1, f.yb1, xnew, ynew, NextIteration(f.it)),
              cstack |-> Append(stack, [f EXCEPT !.stage = "B", !.xb2 = xnew, !.yb2 = ynew]),
              it |-> f.it]
        ELSE AfterB(f, stack)

\* The call c found colls and is not localised.  When neither cut is valid
\* the third call runs on the segment of c itself, where the geometry gives
\* the same answer: it cuts again with the next iteration number, or takes
\* the collision as localised once the iteration counter passed its maximum.
\* CutIteration is the iteration at which such a chain of calls stops.
CutIteration(L, s, it) ==
    LET good == {j \in it..ITER_MAX : \/ ValidCut(L, CutLen(L, s, 100 - j), 0)
                                      \/ ValidCut(L, CutLen(L, s, 100 + j), 0)}
    IN  IF good = {} THEN ITER_MAX + 1
        ELSE CHOOSE j \in good : \A k \in good : j <= k

Bisect(c, colls, stack) ==
    LET L == c.x2 - c.x1
        s == colls[1].s
        it == CutIteration(L, s, c.it)
        cut1 == CutLen(L, s, 100 - it)
        f == [stage |-> "A", x1 |-> c.x1, y1 |-> c.y1, x2 |-> c.x2, y2 |-> c.y2,
              s |-> s, it |-> it, xb1 |-> c.x1, yb1 |-> c.y1,
              xb2 |-> c.x1, yb2 |-> c.y1]
    IN  IF it > ITER_MAX
        THEN [local |-> TRUE, call |-> [c EXCEPT !.it = it], cstack |-> stack, it |-> it]
        ELSE IF ValidCut(L, cut1, 0)
        THEN LET xnew == c.x1 + cut1
                 ynew == dense_out(stepper, xnew)
             IN  [local |-> FALSE, call |-> SubCall(c.x1, c.y1, xnew, ynew, NextIteration(it)),
                  cstack |-> Append(stack, [f EXCEPT !.xb1 = xnew, !.yb1 = ynew,
                                                     !.xb2 = xnew, !.yb2 = ynew]),
                  it |-> it]
        ELSE AfterA(f, stack)

\* A recursive call returned false: its caller goes on
Resume(stack) ==
    LET f == stack[Len(stack)]
        rest == SubSeq(stack, 1, Len(stack) - 1)
    IN  IF f.stage = "A" THEN AfterA(f, rest) ELSE AfterB(f, rest)

----------------------------------------------------------------------------
(* Output *)

\* The records an operation writes, in the order written
Write(recs) ==
    /\ emitted' = recs
    /\ lastout' = IF recs = <<>> THEN lastout ELSE <<recs[Len(recs)].t>>

\* PrintTrack / Print: a record carries its time, the state and the total energy
TrackRecord(t, yy, pol) ==
    [kind |-> "track", t |-> t, y |-> yy, H |-> Ekin(yy.v) + Epot(t, yy, pol, field)]
StatusRecord(kind, t, yy, pol) ==
    [kind |-> kind, t |-> t, y |-> yy, H |-> Ekin(yy.v) + Epot(t, yy, pol, field)]

----------------------------------------------------------------------------
(* TParticle::Integrate *)

\* The piece (x1,y1 -> x2,y2) of the step that starts at px1: its time length
\* is MAX_SAMPLE_DIST/v1, cut at the end px, py of the step
Piece(px1, py1, px, py, st) ==
    LET v1 == Abs(py1.v)
        xx2 == IF v1 = 0 THEN Infinity ELSE px1 + (MAX_SAMPLE_DIST \div v1)
    IN  IF xx2 >= px THEN [x2 |-> px, y2 |-> py]
        ELSE [x2 |-> xx2, y2 |-> dense_out(st, xx2)]

\* while (x1 < x): hand the next piece to CheckHit, or leave the inner loop
NextPiece(px1, py1, px, py, st) ==
    IF px1 < px
    THEN LET pc2 == Piece(px1, py1, px, py, st)
         IN  /\ x2' = pc2.x2
             /\ y2' = pc2.y2
             /\ call' = [x1 |-> px1, y1 |-> py1, x2 |-> pc2.x2, y2 |-> pc2.y2, it |-> 1]
             /\ pc' = "checkhit"
    ELSE /\ UNCHANGED <<x2, y2>>
         /\ call' = NoCall
         /\ pc' = "enditer"

\* Values an uninitialised x2, y2 may hold
Garbage == {[x |-> 0, y |-> [z |-> 0, v |-> 0]], [x |-> Infinity, y |-> [z |-> 0, v |-> 0]]}

\* first snapshot time that is not before t
FirstSnapshot(times, t) ==
    LET later == {i \in 1..Len(times) : times[i] >= t}
    IN  IF later = {} THEN Len(times) + 1 ELSE CHOOSE i \in later : \A j \in later : i <= j

\* while (ID <= ID_UNKNOWN) in the place of the loop test
LoopTestNonPositive(id) == id <= ID_UNKNOWN

\* while (ID == ID_UNKNOWN)
LoopTest(id) == id = ID_UNKNOWN

\* Integrate up to the main loop
Begin ==
    /\ pc = "start"
    /\ \E ray \in (IF currentsolids = {} THEN RayAnswers ELSE {<<>>}) :
          currentsolids' = IF currentsolids = {} THEN SolidSet(GetSolids(ray))
                           ELSE currentsolids
    /\ x' = tend
    /\ y' = yend
    /\ polarisation' = polend
    /\ h' = IF yend.v = 0 THEN Infinity ELSE FirstStep \div Abs(yend.v)
    /\ stepper' = NoStep
    /\ nextsnapshot' = FirstSnapshot(output.snapshottimes, tend)
    /\ IF output.tracklog
       THEN \E g \in Garbage :
               /\ x2' = g.x
               /\ y2' = g.y
               /\ Write(<<TrackRecord(g.x, g.y, polend)>>)
       ELSE /\ x2' = 0
            /\ y2' = [z |-> 0, v |-> 0]
            /\ Write(<<>>)
    /\ pc' = IF LoopTest(ID) THEN "loop" ELSE "finish"
    /\ NoCrossing
    /\ UNCHANGED <<ID, tend, yend, polend, Hmax, lend, Nstep, x1, y1, call, cstack,
                   changed, threw>>
    /\ UNCHANGED <<particleVars, startVars>>

\* the step clipped at the life time only
ClipStepLifetimeOnly(hh, t) ==
    IF t + hh > tstart + tau THEN tstart + tau - t ELSE hh

\* "If stepsize can overshoot, decrease."
ClipStep(hh, t) ==
    LET ha == IF t + hh > tstart + tau THEN tstart + tau - t ELSE hh
    IN  IF t + ha > tmax THEN tmax - t ELSE ha

\* the step sizes the stepper may accept for a suggested step hh
StepSizes(hh) == IF hh > 0 THEN 1..hh ELSE IF hh < 0 THEN hh..(-1) ELSE {0}

\* Nstep++ ahead of the step, counted also when the step throws
CountStepAlways(n, ok) == n + 1

\* try { step; Nstep++ } catch: the count after a step that succeeded or threw
CountStep(n, ok) == IF ok THEN n + 1 ELSE n

\* One step of the stepper succeeds, then the first piece goes to CheckHit;
\* n is the step count afterwards
Step(n) ==
    /\ pc = "loop"
    /\ LET hh == ClipStep(h, x)
       IN  \E hdid \in StepSizes(hh), hnext \in 1..MaxHnext :
              LET st == [xold |-> x, yold |-> y, hdid |-> hdid, hnext |-> hnext]
                  xn == x + hdid
                  yn == dense_out(st, xn)
              IN  /\ h' = hh
                  /\ stepper' = st
                  /\ x' = xn
                  /\ y' = yn
                  /\ x1' = x
                  /\ y1' = y
                  /\ NextPiece(x, y, xn, yn, st)
    /\ Nstep' = n
    /\ threw' = FALSE
    /\ NoCrossing
    /\ Write(<<>>)
    /\ UNCHANGED <<ID, tend, yend, polend, Hmax, lend, currentsolids, polarisation,
                   nextsnapshot, cstack, changed>>
    /\ UNCHANGED <<particleVars, startVars>>

\* a step, while the steps are counted
StepOK == Nstep < MaxNstep /\ Step(CountStep(Nstep, TRUE))

\* a step, the count standing for "MaxNstep or more" once it got there
StepSat == Step(Min2(CountStep(Nstep, TRUE), MaxNstep))

\* The stepper throws: x and y keep their values
StepThrow ==
    /\ pc = "loop"
    /\ h' = ClipStep(h, x)
    /\ x1' = x
    /\ y1' = y
    /\ Nstep' = CountStep(Nstep, FALSE)
    /\ ID' = ID_NRERROR
    /\ threw' = TRUE
    /\ NoCrossing
    /\ NextPiece(x, y, x, y, stepper)
    /\ Write(<<>>)
    /\ UNCHANGED <<tend, yend, polend, Hmax, lend, currentsolids, x, y,
                   polarisation, nextsnapshot, stepper, cstack, changed>>
    /\ UNCHANGED <<particleVars, startVars>>

\* CheckHit returns o to its caller.  "changed" goes up through every waiting
\* invocation, each taking over the end of the piece; "unchanged" lets the
\* waiting invocation go on with its next piece.
Return(o) ==
    /\ ID' = o.ID
    /\ crossed' = o.cross
    /\ inside' = Inside(inside, o.cross)
    /\ currentsolids' = o.cs
    /\ polend' = o.polend
    /\ Write(o.recs)
    /\ IF o.changed \/ cstack = <<>>
       THEN /\ x2' = o.x2
            /\ y2' = o.y2
            /\ changed' = o.changed
            /\ call' = NoCall
            /\ cstack' = <<>>
            /\ pc' = "post"
       ELSE /\ call' = Resume(cstack).call
            /\ cstack' = Resume(cstack).cstack
            /\ UNCHANGED <<x2, y2, changed, pc>>

\* The geometry query or a handler throws inside CheckHit.  The call of
\* CheckHit is outside the try block of Integrate: the exception leaves
\* Integrate, nothing is written any more.
ResolverThrows ==
    /\ pc' = "aborted"
    /\ Write(<<>>)
    /\ NoCrossing
    /\ UNCHANGED <<ID, currentsolids, polend, x2, y2, changed, call, cstack>>

\* One invocation of CheckHit; seen: what the invocation saw is kept in
\* crossed
Resolve(seen) ==
    /\ pc = "checkhit"
    /\ IF ~CheckSegment(call.y1, call.y2)
       THEN Return([changed |-> TRUE, x2 |-> call.x2, y2 |-> call.y2,
                    ID |-> ID_HIT_BOUNDARIES, cs |-> currentsolids,
                    polend |-> polend, recs |-> <<>>, cross |-> NoCross])
       ELSE \/ ResolverThrows
            \/ \E colls \in CollAnswers :
                 IF colls = <<>>
                 THEN \E o \in StepResults(call) : Return(o)
                 ELSE IF Localised(colls, (call.y2.z - call.y1.z) * colls[1].normal, call.it)
                 THEN \E o \in HitResults(call, colls) :
                         Return([o EXCEPT !.cross = IF seen THEN Seen(@, colls, call)
                                                    ELSE @])
                 ELSE LET d == Bisect(call, colls, cstack)
                      IN  IF d.local
                          THEN \E o \in HitResults(d.call, colls) :
                                  Return([o EXCEPT !.cross =
                                              IF seen THEN Seen(@, colls, d.call) ELSE @])
                          ELSE /\ call' = d.call
                               /\ cstack' = d.cstack
                               /\ Write(<<>>)
                               /\ crossed' =
                                      IF seen
                                      THEN Seen([NoCross EXCEPT !.dir = "cut"], colls,
                                                [call EXCEPT !.it = d.it])
                                      ELSE NoCross
                               /\ UNCHANGED inside
                               /\ UNCHANGED <<ID, currentsolids, polend, x2, y2,
                                              changed, pc>>
    /\ UNCHANGED <<tend, yend, polarisation, Hmax, lend, Nstep, x, y, x1, y1, h,
                   nextsnapshot, stepper, threw>>
    /\ UNCHANGED <<particleVars, startVars>>

CheckHit == Resolve(FALSE)
CheckHitSeen == Resolve(TRUE)

\* Hmax = H, without the maximum
NewHmaxLast(H, old) == H

\* Hmax = max(H, Hmax)
NewHmax(H, old) == Max2(H, old)

\* The rest of the inner loop body after CheckHit, and the loop test
PostCheck ==
    /\ pc = "post"
    /\ LET xn == IF changed THEN x2 ELSE x
           yn == IF changed THEN y2 ELSE y
           times == output.snapshottimes
           snap == /\ output.snapshotlog
                   /\ nextsnapshot <= Len(times)
                   /\ x1 <= times[nextsnapshot]
                   /\ x2 > times[nextsnapshot]
           xsnap == times[nextsnapshot]
       IN  /\ x' = xn
           /\ y' = yn
           /\ lend' = lend + Abs(y2.z - y1.z)
           /\ Hmax' = NewHmax(Ekin(y2.v) + Epot(xn, y2, polarisation, field), Hmax)
           /\ nextsnapshot' = IF snap THEN nextsnapshot + 1 ELSE nextsnapshot
           /\ Write((IF snap
                     THEN <<StatusRecord("snapshot", xsnap, dense_out(stepper, xsnap),
                                         polarisation)>>
                     ELSE <<>>)
                    \o (IF output.tracklog THEN <<TrackRecord(x2, y2, polarisation)>>
                        ELSE <<>>))
           /\ x1' = x2
           /\ y1' = y2
           /\ NextPiece(x2, y2, xn, yn, stepper)
    /\ NoCrossing
    /\ UNCHANGED <<ID, tend, yend, polend, Nstep, currentsolids, polarisation, h,
                   stepper, cstack, changed, threw>>
    /\ UNCHANGED <<particleVars, startVars>>

\* the end checks with the time and length limits tested ahead of the decay
EndChecksLimitsFirst(id, t, len) ==
    IF id = ID_UNKNOWN /\ (t >= tmax \/ len >= maxtraj) THEN ID_NOT_FINISH
    ELSE IF id = ID_UNKNOWN /\ t >= tstart + tau THEN ID_DECAYED
    ELSE id

\* The fate of the particle after the checks at the end of an iteration
EndChecks(id, t, len) ==
    IF id = ID_UNKNOWN /\ t >= tstart + tau THEN ID_DECAYED
    ELSE IF id = ID_UNKNOWN /\ (t >= tmax \/ len >= maxtraj) THEN ID_NOT_FINISH
    ELSE id

\* End of a main-loop iteration, and the loop test
EndIter ==
    /\ pc = "enditer"
    /\ ID' = EndChecks(ID, x, lend)
    /\ h' = stepper.hnext
    /\ pc' = IF LoopTest(ID') THEN "loop" ELSE "finish"
    /\ NoCrossing
    /\ Write(<<>>)
    /\ UNCHANGED <<tend, yend, polend, Hmax, lend, Nstep, currentsolids, x, y, x1, y1,
                   x2, y2, polarisation, nextsnapshot, stepper, call, cstack,
                   changed, threw>>
    /\ UNCHANGED <<particleVars, startVars>>

\* the state after the loop written over the start snapshot
EndSnapshotOverStart(t, yy, pol) ==
    /\ tstart' = t
    /\ ystart' = yy
    /\ polstart' = pol
    /\ UNCHANGED <<tend, yend, polend>>

\* tend = x; yend = y; polend = polarisation
EndSnapshot(t, yy, pol) ==
    /\ tend' = t
    /\ yend' = yy
    /\ polend' = pol
    /\ UNCHANGED startVars

\* After the main loop: the end snapshot and the end record
Finish ==
    /\ pc = "finish"
    /\ EndSnapshot(x, y, polarisation)
    /\ Write(<<StatusRecord("end", x, y, polarisation)>>)
    /\ pc' = "done"
    /\ NoCrossing
    /\ UNCHANGED <<ID, Hmax, lend, Nstep, currentsolids, x, y, x1, y1, x2, y2,
                   polarisation, h, nextsnapshot, stepper, call, cstack, changed, threw>>
    /\ UNCHANGED particleVars

----------------------------------------------------------------------------
(* TGeometry: the constructor and the two queries *)

\* everything but the geometry
integrateVars ==
    <<ID, tau, maxtraj, tstart, tend, ystart, yend, polstart, polend, Hmax, lend,
      Nhit, Nstep, currentsolids, field, tmax, output, x, y, x1, y1, x2, y2,
      polarisation, h, nextsnapshot, stepper, pc, call, cstack, changed, threw,
      crossed, lastout, emitted, inside>>

\* TGeometry::TGeometry: read the solids, then throw if std::unique finds
\* two equal IDs; the configuration is not kept
Construct ==
    /\ geom.pc = "config"
    /\ LET g == ReadSolids(geom.config, geom)
       IN  geom' = [g EXCEPT !.config = <<>>,
                             !.pc = IF UniqueFindsEqual(g.solids) THEN "threw" ELSE "built"]
    /\ UNCHANGED integrateVars

\* the segments (x1, x2) of the queries, and what colls may hold before
QuerySegments == {<<a, b>> : a \in 0..1, b \in 2..3}
StaleColls == {<<>>, <<[s |-> 0, ID |-> DefaultID, ignored |-> TRUE]>>}

\* a call of TGeometry::GetCollisions
GetCollisionsCall ==
    /\ geom.pc = "built"
    /\ \E seg \in QuerySegments, prev \in StaleColls, c \in MeshAnswers(geom.solids) :
          LET r == GetCollisions(geom.solids, prev, seg[1], seg[2], c)
          IN  geom' = [geom EXCEPT !.pc = "queried",
                                   !.query = [kind |-> "collisions", x1 |-> seg[1],
                                              x2 |-> seg[2], prev |-> prev, mesh |-> c],
                                   !.colls = r.colls,
                                   !.ret = r.ret]
    /\ UNCHANGED integrateVars

\* a call of TGeometry::GetSolids
GetSolidsCall ==
    /\ geom.pc = "built"
    /\ \E at \in 0..2, c \in MeshAnswers(geom.solids) :
          geom' = [geom EXCEPT !.pc = "queried",
                               !.query = [kind |-> "solids", x1 |-> at, x2 |-> at,
                                          prev |-> <<>>, mesh |-> c],
                               !.found = GetSolidsAt(geom, at, c)]
    /\ UNCHANGED integrateVars

\* a call of TGeometry::GetSolid(t, p)
GetSolidCall ==
    /\ geom.pc = "built"
    /\ \E at \in 0..2, c \in MeshAnswers(geom.solids) :
          geom' = [geom EXCEPT !.pc = "queried",
                               !.query = [kind |-> "solid", x1 |-> at, x2 |-> at,
                                          prev |-> <<>>, mesh |-> c],
                               !.found = GetSolidsAt(geom, at, c),
                               !.sld = GetSolidAt(geom, at, c).ID]
    /\ UNCHANGED integrateVars

----------------------------------------------------------------------------
(* The particle after InitV, and the arguments of Integrate *)

\* TOutput with every log switched on or off together
Output(log, times) ==
    [endlog |-> log, tracklog |-> log, hitlog |-> log, snapshotlog |-> log,
     snapshottimes |-> times]

Run(id, atau, atmax, amaxtraj, v0, fld, log, times, anysolids) ==
    [ID |-> id, tau |-> atau, tmax |-> atmax, maxtraj |-> amaxtraj, v0 |-> v0,
     field |-> fld, log |-> log, times |-> times, anysolids |-> anysolids]

\* The runs of the model: a long one; a fast particle rising in a ramped
\* field, life time and simulation time ending together; a fast particle
\* with a short maximal trajectory and no logs; a life time of zero; a
\* simulation time before the start time; a particle whose start position
\* was not found; a falling particle that gravity accelerates, no logs
Runs ==
    { Run(ID_UNKNOWN, 4, 4, Infinity, 1, NoField, TRUE, <<1, 2>>, FALSE),
      Run(ID_UNKNOWN, 3, 4, Infinity, 2, RampField, TRUE, <<2, 3>>, FALSE),
      Run(ID_UNKNOWN, 4, 4, 2, 2, NoField, FALSE, <<>>, TRUE),
      Run(ID_UNKNOWN, 0, 3, Infinity, 1, NoField, TRUE, <<2, 3>>, TRUE),
      Run(ID_UNKNOWN, 2, 0, Infinity, 1, NoField, TRUE, <<>>, TRUE),
      Run(ID_INITIAL_NOT_FOUND, 2, 3, Infinity, 1, NoField, TRUE, <<2, 3>>, TRUE),
      Run(ID_UNKNOWN, 2, 3, Infinity, -1, NoField, FALSE, <<>>, FALSE) }

\* The run of the termination check
LiveRuns == { Run(ID_UNKNOWN, 2, 3, Infinity, 1, NoField, TRUE, <<2>>, FALSE) }

InitFrom(R) ==
    \E r \in R, ray \in RayAnswers :
        /\ r.anysolids \/ ray = <<>>
        /\ ID = r.ID
        /\ tau = r.tau
        /\ maxtraj = r.maxtraj
        /\ tstart = 1
        /\ tend = 1
        /\ ystart = [z |-> 0, v |-> r.v0]
        /\ yend = [z |-> 0, v |-> r.v0]
        /\ polstart = 1
        /\ polend = 1
        /\ field = r.field
        /\ Hmax = Ekin(r.v0) + Epot(1, [z |-> 0, v |-> r.v0], 1, r.field)
        /\ lend = 0
        /\ Nhit = 0
        /\ Nstep = 0
        /\ currentsolids = SolidSet(GetSolids(ray))
        /\ tmax = r.tmax
        /\ output = Output(r.log, r.times)
        /\ x = 0 /\ y = [z |-> 0, v |-> 0]
        /\ x1 = 0 /\ y1 = [z |-> 0, v |-> 0]
        /\ x2 = 0 /\ y2 = [z |-> 0, v |-> 0]
        /\ polarisation = 0
        /\ h = 0
        /\ nextsnapshot = 1
        /\ stepper = NoStep
        /\ pc = "start"
        /\ call = NoCall
        /\ cstack = <<>>
        /\ changed = FALSE
        /\ threw = FALSE
        /\ crossed = NoCross
        /\ lastout = <<>>
        /\ emitted = <<>>
        /\ inside = SolidSet(GetSolids(ray))

\* the geometry of the runs: the default solid and one solid for every
\* other ID, constructed
World ==
    [ReadSolids([i \in 1..MaxSolidID |-> SolidDef(i)],
                NewGeometry([i \in 1..MaxSolidID |-> SolidDef(i)]))
       EXCEPT !.pc = "built", !.config = <<>>]

Init == InitFrom(Runs) /\ geom = World

Next == Begin \/ StepOK \/ StepThrow \/ CheckHit \/ PostCheck \/ EndIter \/ Finish

Spec == Init /\ [][Next]_vars

\* Termination: the program always takes its next step, and the step count
\* saturates so that a run of any length stays inside the model
LiveInit == InitFrom(LiveRuns) /\ geom = World

LiveNext == Begin \/ StepSat \/ StepThrow \/ CheckHit \/ PostCheck \/ EndIter \/ Finish

LiveSpec == LiveInit /\ [][LiveNext]_vars /\ WF_vars(LiveNext)

\* The collision resolver: a particle at rest in the default solid starts to
\* fall and is stopped after one unit of trajectory; its first step may be
\* one piece of four ticks.  What every invocation of CheckHit saw is kept,
\* and the step count saturates.
HitRuns == { Run(ID_UNKNOWN, 4, 5, 1, 0, NoField, FALSE, <<>>, FALSE) }

HitInit == InitFrom(HitRuns) /\ geom = World

HitNext == Begin \/ StepSat \/ StepThrow \/ CheckHitSeen \/ PostCheck \/ EndIter \/ Finish

HitSpec == HitInit /\ [][HitNext]_vars

\* Termination of the resolver: a rising particle that is stopped after one
\* unit of trajectory; its first step may be one piece of two ticks.  The
\* program always takes its next step.
HitLiveRuns == { Run(ID_UNKNOWN, 2, 3, 1, 1, NoField, FALSE, <<>>, FALSE) }

HitLiveInit == InitFrom(HitLiveRuns) /\ geom = World

HitLiveSpec == HitLiveInit /\ [][HitNext]_vars /\ WF_vars(HitNext)

\* The geometry alone: a configuration is read, then the geometry is queried
\* for a particle that waits for its integration
GeomInit ==
    /\ InitFrom({Run(ID_UNKNOWN, 2, 3, Infinity, 1, NoField, TRUE, <<>>, FALSE)})
    /\ \E c \in Configs : geom = NewGeometry(c)

GeomNext == Construct \/ GetCollisionsCall \/ GetSolidsCall \/ GetSolidCall

GeomSpec == GeomInit /\ [][GeomNext]_vars

----------------------------------------------------------------------------
(* Properties *)

Min3(a, b, c) == Min2(a, Min2(b, c))
TimeLimit == Min2(tstart + tau, tmax)

\* C1: The main loop (a step, a CheckHit call) runs only while ID is 0, and
\* when Integrate has returned ID is not 0: it is the ID of a solid, -1, -2,
\* -3 or -4, or the non-zero ID the particle had on entry (nothing was done).
InvC1 ==
    /\ pc \in {"loop", "checkhit"} => ID = ID_UNKNOWN
    /\ pc = "done" =>
          /\ ID # ID_UNKNOWN
          /\ \/ ID \in 1..MaxSolidID
             \/ ID \in {ID_NOT_FINISH, ID_HIT_BOUNDARIES, ID_NRERROR, ID_DECAYED}
             \/ ID = ID_INITIAL_NOT_FOUND /\ Nstep = 0 /\ ~threw /\ tend = tstart

\* Integrate returned after the particle was absorbed in a solid
WitC1 == pc = "done" /\ ID \in SolidIDs /\ Nstep > 1

\* C2: Every call of Integrate terminates, whatever the handlers answer.
CexC2 == <>(pc \in {"done", "aborted"})

\* C3: At the end of an iteration an unknown ID becomes decayed when
\* t >= tstart + tau, even if a limit is reached too; otherwise not-finished
\* when t >= tmax or lend >= maxtraj; otherwise it stays unknown.  An ID that
\* is already set is not overwritten.
ThmC3 ==
    [][pc = "enditer" =>
         ID' = IF ID # ID_UNKNOWN THEN ID
               ELSE IF x >= tstart + tau THEN ID_DECAYED
               ELSE IF x >= tmax \/ lend >= maxtraj THEN ID_NOT_FINISH
               ELSE ID_UNKNOWN]_vars

\* the end checks ran with the life time and a limit reached together
WitC3 == pc = "finish" /\ ~threw /\ ID = ID_DECAYED /\ (x >= tmax \/ lend >= maxtraj)

\* C4 as stated: the step handed to the stepper is min(h_next, tstart+tau-t,
\* tmax-t), t never exceeds min(tstart+tau, tmax), and neither does tend.
CexC4 ==
    [][/\ pc = "loop" => h' = Min3(h, tstart + tau - x, tmax - x)
       /\ x' <= TimeLimit
       /\ pc' = "done" => tend' <= TimeLimit]_vars

\* C4, amended: the same, for a particle that starts no later than
\* min(tstart+tau, tmax) (tau >= 0 and tstart <= tmax).
ThmC4 ==
    [][(tau >= 0 /\ tstart <= tmax) =>
         /\ pc = "loop" => h' = Min3(h, tstart + tau - x, tmax - x)
         /\ x' <= TimeLimit
         /\ pc' = "done" => tend' <= TimeLimit]_vars

\* a step was done and the next suggested step is about to be clipped
WitC4 ==
    /\ pc = "loop" /\ Nstep > 0 /\ tau >= 0 /\ tstart <= tmax
    /\ Min3(h, tstart + tau - x, tmax - x) < h

\* C5: When the stepper throws, ID becomes -3, Nstep is not incremented, no
\* piece goes to CheckHit, the loop exits and the end snapshot is the state
\* before the failed step.
ThmC5 ==
    [][/\ (pc = "loop" /\ threw') =>
             /\ ID' = ID_NRERROR /\ Nstep' = Nstep
             /\ x' = x /\ y' = y
             /\ pc' = "enditer" /\ call' = NoCall
       /\ threw =>
             /\ ID' = ID_NRERROR /\ Nstep' = Nstep
             /\ pc' \in {"finish", "done"}
             /\ pc' = "done" => (tend' = x1 /\ yend' = y1 /\ tend' = x /\ yend' = y)]_vars

\* Integrate returned after the stepper threw in a step that was not the first
WitC5 == pc = "done" /\ threw /\ Nstep > 0 /\ tend > tstart

\* C6: The current-solid set always contains the default solid, and so
\* does every set GetSolids returns.
InvC6 ==
    /\ DefaultID \in currentsolids
    /\ pc = "start" => \A ray \in RayAnswers : DefaultID \in SolidSet(GetSolids(ray))

\* the particle left the last solid with a mesh; only the default is left
WitC6 ==
    /\ pc = "post" /\ crossed.dir = "out" /\ crossed.hit /\ crossed.passed
    /\ currentsolids = {DefaultID}

CexC8 ==
    [][(crossed'.dir \in {"in", "out"} /\ ~crossed'.error) => Nhit' = Nhit + 1]_vars

\* C9: The times of the records written never decrease in the order they are
\* written; the first track sample carries the start time and state; the end
\* record is not earlier than tstart.
CexC9 ==
    [][/\ \A i \in 1..(Len(emitted') - 1) : emitted'[i].t <= emitted'[i + 1].t
       /\ (emitted' # <<>> /\ lastout # <<>>) => lastout[1] <= emitted'[1].t
       /\ (pc = "start" /\ emitted' # <<>>) =>
             (emitted'[1].t = tstart /\ emitted'[1].y = ystart)
       /\ pc' = "done" => tend' >= tstart]_vars

\* C11: At every track sample and at the end record, Hmax is at least the
\* total energy of the record, taken at the record's time, state and
\* polarisation.
CexC11 ==
    [][\A i \in 1..Len(emitted') :
          emitted'[i].kind \in {"track", "end"} => Hmax' >= emitted'[i].H]_vars

\* C12: A piece handed to CheckHit by Integrate is at most MAX_SAMPLE_DIST
\* long in space and MAX_SAMPLE_DIST/|v1| in time, shorter in time only when
\* it is the last of its step; it starts where the piece before ended (the
\* first one at the start of the step) and the last one ends at the end of
\* the step.
CexC12 ==
    [][/\ (pc \in {"loop", "post"} /\ pc' = "checkhit") =>
             /\ Abs(call'.y2.z - call'.y1.z) <= MAX_SAMPLE_DIST
             /\ (call'.x2 - call'.x1) * Abs(call'.y1.v) <= MAX_SAMPLE_DIST
             /\ (call'.x2 < x' /\ call'.y1.v # 0) =>
                    call'.x2 - call'.x1 = MAX_SAMPLE_DIST \div Abs(call'.y1.v)
             /\ call'.x1 = (IF pc = "loop" THEN x ELSE x2)
             /\ call'.y1 = (IF pc = "loop" THEN y ELSE y2)
       /\ (pc = "post" /\ pc' = "enditer") => x2 = x']_vars

\* C13: No constructed geometry holds two solids with the same ID: the
\* constructor throws for every configuration that defines an ID twice.
CexC13 ==
    geom.pc \in {"built", "queried"} =>
        \A i, j \in 1..Len(geom.solids) :
            i # j => geom.solids[i].ID # geom.solids[j].ID

\* C14: After GetCollisions the container holds exactly one record for each
\* collision the mesh reported and nothing of its previous content; a record
\* is tagged ignored exactly when its hit time x1 + (x2 - x1)*s lies in an
\* ignore interval [a, b) of its solid; the value returned is true exactly
\* when there is a record.
InvC14 ==
    (geom.pc = "queried" /\ geom.query.kind = "collisions") =>
        LET q == geom.query
            InInterval(r) ==
                \E iv \in {SolidDef(r.ID).ignoretimes[k] :
                               k \in 1..Len(SolidDef(r.ID).ignoretimes)} :
                    /\ iv[1] * SDen <= q.x1 * SDen + (q.x2 - q.x1) * r.s
                    /\ q.x1 * SDen + (q.x2 - q.x1) * r.s < iv[2] * SDen
        IN  /\ Len(geom.colls) = Len(q.mesh)
            /\ \A hit \in MeshHits(geom.solids) :
                   Cardinality({i \in 1..Len(q.mesh) : q.mesh[i] = hit})
                   = Cardinality({i \in 1..Len(geom.colls) :
                                     /\ geom.colls[i].s = hit.s
                                     /\ geom.colls[i].ID = hit.ID})
            /\ \A i \in 1..Len(geom.colls) :
                   geom.colls[i].ignored <=> InInterval(geom.colls[i])
            /\ geom.ret <=> (geom.colls # <<>>)

\* colls held a stale record before the call; one collision lies exactly on
\* the end of an ignore interval of its solid and another one on a start
WitC14 ==
    /\ geom.pc = "queried" /\ geom.query.kind = "collisions"
    /\ geom.query.prev # <<>>
    /\ \E i, j \in 1..Len(geom.colls) :
          /\ \E k \in 1..Len(SolidDef(geom.colls[i].ID).ignoretimes) :
                geom.query.x1 * SDen + (geom.query.x2 - geom.query.x1) * geom.colls[i].s
                = SolidDef(geom.colls[i].ID).ignoretimes[k][2] * SDen
          /\ ~geom.colls[i].ignored
          /\ geom.colls[j].ignored

\* C15: GetSolids returns a solid other than the default one exactly when
\* the test ray crosses it an odd number of times and t is in none of its
\* ignore intervals; the default solid is returned exactly once.
CexC15 ==
    (geom.pc = "queried" /\ geom.query.kind = "solids") =>
        LET q == geom.query
            Crossings(id) == Cardinality({i \in 1..Len(q.mesh) : q.mesh[i].ID = id})
            IgnoredAt(id) ==
                \E k \in 1..Len(SolidDef(id).ignoretimes) :
                    /\ SolidDef(id).ignoretimes[k][1] <= q.x1
                    /\ q.x1 < SolidDef(id).ignoretimes[k][2]
        IN  /\ \A id \in SolidIDs :
                   (\E i \in 1..Len(geom.found) : geom.found[i].ID = id)
                   <=> (Crossings(id) % 2 = 1 /\ ~IgnoredAt(id))
            /\ Cardinality({i \in 1..Len(geom.found) : geom.found[i].ID = DefaultID}) = 1

\* C16: No exception leaves Integrate: every error ends as a status ID.
CexC16 == pc # "aborted"

\* C17: Integrate never writes the start snapshot tstart, ystart, polstart.
ThmC17 == [][tstart' = tstart /\ ystart' = ystart /\ polstart' = polstart]_vars

\* Integrate returned after steps that moved the particle: the end snapshot
\* differs from the start snapshot
WitC17 == pc = "done" /\ Nstep > 0 /\ tend > tstart /\ yend # ystart

\* C18: With snapshot logging on, every snapshot time inside a processed
\* piece (x1 <= ts < x2) gets exactly one snapshot record with that time,
\* also when several snapshot times lie in the same piece.
CexC18 ==
    [][(pc = "post" /\ output.snapshotlog) =>
          \A k \in 1..Len(output.snapshottimes) :
              (x1 <= output.snapshottimes[k] /\ output.snapshottimes[k] < x2) =>
                  Cardinality({i \in 1..Len(emitted') :
                                  /\ emitted'[i].kind = "snapshot"
                                  /\ emitted'[i].t = output.snapshottimes[k]}) = 1]_vars

\* C19: Every record Integrate writes is switched on by its toggle: the end
\* record by endlog, track samples by tracklog, hit records by hitlog,
\* snapshots by snapshotlog.
CexC19 ==
    [][\A i \in 1..Len(emitted') :
          /\ emitted'[i].kind = "end" => output.endlog
          /\ emitted'[i].kind = "track" => output.tracklog
          /\ emitted'[i].kind = "hit" => output.hitlog
          /\ emitted'[i].kind = "snapshot" => output.snapshotlog]_vars

\* C20: A spin flip of the hit handler becomes the polarisation of the
\* particle: the hit record shows pol2 # pol1, the integration goes on with
\* the flipped value, and polend after Integrate is the value of the last
\* flip.
CexC20 ==
    [][/\ (pc = "checkhit" /\ polend' # polend) =>
             /\ polarisation' = polend'
             /\ output.hitlog =>
                    \E i \in 1..Len(emitted') :
                        /\ emitted'[i].kind = "hit"
                        /\ emitted'[i].pol2 # emitted'[i].pol1
       /\ pc = "finish" => polend' = polend]_vars

\* C21: At a localised crossing whose direction was tested, OnHit is called
\* on entry exactly when the ID of the entered solid is greater than the ID of
\* the active solid, and on exit exactly when the left solid is the active
\* one; it is called once (one hit record at most), on entry with leaving =
\* the active solid and entering = the hit solid, on exit with leaving = the
\* hit solid and entering = the next-highest solid of the set.
ThmC21 ==
    [][(pc = "checkhit" /\ crossed'.dir \in {"in", "out"}) =>
          LET top == SetMax(currentsolids)
              hits == {i \in 1..Len(emitted') : emitted'[i].kind = "hit"}
          IN  /\ crossed'.dir = "in" => (crossed'.hit <=> crossed'.ID > top)
              /\ crossed'.dir = "out" => (crossed'.hit <=> crossed'.ID = top)
              /\ (crossed'.hit /\ crossed'.dir = "in") =>
                     (crossed'.leaving = top /\ crossed'.entering = crossed'.ID)
              /\ (crossed'.hit /\ crossed'.dir = "out") =>
                     /\ crossed'.leaving = crossed'.ID
                     /\ crossed'.entering = SetMax(currentsolids \ {top})
              /\ Cardinality(hits) = (IF crossed'.hit /\ output.hitlog THEN 1 ELSE 0)]_vars

\* the particle left the active solid, with two other solids around it, and
\* OnHit was called
WitC21 ==
    /\ crossed.dir = "out" /\ crossed.hit /\ crossed.leaving = MaxSolidID
    /\ crossed.entering \in SolidIDs

\* C22: A localised crossing that admits no reaction (entry into a solid with
\* a lower ID than the active one, exit from a solid of the set that is not
\* the active one) calls no OnHit but is recorded: the entered solid is added
\* to the current-solid set, the left one removed.
CexC22 ==
    [][(pc = "checkhit" /\ crossed'.dir \in {"in", "out"}
        /\ ~crossed'.hit /\ ~crossed'.error) =>
          /\ \A i \in 1..Len(emitted') : emitted'[i].kind # "hit"
          /\ currentsolids' = IF crossed'.dir = "in"
                              THEN currentsolids \cup {crossed'.ID}
                              ELSE currentsolids \ {crossed'.ID}]_vars

\* C23: The entry into a solid of the current-solid set, the exit from a
\* solid outside of it and a crossing without normal displacement end the
\* particle with ID -3: CheckHit returns changed with the end of the segment
\* reset to its start, the set as it was and no handler called.  A particle
\* in correctly nested solids that do not touch never meets one of them: an
\* entry error is raised only for a solid the particle is in, an exit error
\* only for one it is not in.
CexC23 ==
    [][(pc = "checkhit" /\ crossed'.error
        /\ (crossed'.dir \in {"in", "out"} \/ crossed'.dn = 0)) =>
          /\ ID' = ID_NRERROR /\ changed' /\ pc' = "post"
          /\ x2' = call.x1 /\ y2' = call.y1
          /\ currentsolids' = currentsolids
          /\ ~crossed'.hit /\ emitted' = <<>>
          /\ crossed'.dir \in {"in", "out"} => inside' = {}]_vars

\* C24 as stated: CheckHit takes the first collision of a segment as
\* localised exactly when s*|d.n| and (1 - s)*|d.n| are both below
\* REFLECT_TOLERANCE or iteration > 99, however many collisions the segment
\* has; else it bisects.
CexC24 ==
    [][(pc = "checkhit" /\ crossed'.n > 0) =>
          (crossed'.dir # "cut" <=>
              \/ /\ crossed'.s * crossed'.dn < REFLECT_TOLERANCE * SDen
                 /\ (SDen - crossed'.s) * crossed'.dn < REFLECT_TOLERANCE * SDen
              \/ crossed'.it > 99)]_vars

\* C24, amended: the same, the two distances counting only for a segment with
\* exactly one collision.
ThmC24 ==
    [][(pc = "checkhit" /\ crossed'.n > 0) =>
          (crossed'.dir # "cut" <=>
              \/ /\ crossed'.n = 1
                 /\ crossed'.s * crossed'.dn < REFLECT_TOLERANCE * SDen
                 /\ (SDen - crossed'.s) * crossed'.dn < REFLECT_TOLERANCE * SDen
              \/ crossed'.it > 99)]_vars

\* a segment with two collisions, the first one within the tolerance of both
\* ends, was bisected
WitC24 ==
    /\ pc = "checkhit" /\ crossed.dir = "cut" /\ crossed.n = 2 /\ crossed.it <= 99
    /\ crossed.s * crossed.dn < REFLECT_TOLERANCE * SDen
    /\ (SDen - crossed.s) * crossed.dn < REFLECT_TOLERANCE * SDen

\* C25: A localised segment with a second collision at the same s as the
\* first one and another solid ID ends the particle with ID -3 and the end of
\* the segment reset to its start; a second collision at another s, or of the
\* same solid, does not: the only error such a segment can end in is that of
\* its first crossing (wrong direction for the set, or no normal displacement).
CexC25 ==
    [][(pc = "checkhit" /\ crossed'.dir # "cut" /\ crossed'.n > 1) =>
          IF crossed'.s2 = crossed'.s /\ crossed'.ID2 # crossed'.ID
          THEN /\ crossed'.error /\ crossed'.dir = "none"
               /\ ID' = ID_NRERROR /\ changed'
               /\ x2' = call.x1 /\ y2' = call.y1
          ELSE ~(crossed'.error /\ crossed'.dir = "none" /\ crossed'.dn # 0)]_vars

\* C26: The recursion of CheckHit is bounded.  An invocation that bisects has
\* iteration <= 99 and calls itself with its iteration plus one, also when it
\* goes on after a recursive call returned; an invocation with iteration > 99
\* takes the first collision as localised; no invocation has an iteration
\* above 100; and every call Integrate makes returns, whatever the geometry
\* answers (a collision at s = 0 or s = 1, where no cut is valid, included).
ThmC26 ==
    /\ [][pc = "checkhit" =>
            /\ call.it <= ITER_MAX + 1
            /\ crossed'.dir = "cut" =>
                   (crossed'.it <= ITER_MAX /\ call'.it = crossed'.it + 1)
            /\ crossed'.it > ITER_MAX => crossed'.dir # "cut"
            /\ (crossed'.dir # "cut" /\ pc' = "checkhit") =>
                   call'.it = cstack[Len(cstack)].it + 1]_vars
    /\ (pc = "checkhit") ~> (pc # "checkhit")

\* an invocation inside the recursion took a collision at the start or the
\* end of its segment as localised when the iteration counter passed 99, and
\* returned; its caller goes on with the next piece
WitC26 ==
    /\ pc = "checkhit" /\ call.it > 1
    /\ crossed.it = ITER_MAX + 1 /\ crossed.s \in {0, SDen}
    /\ crossed.dir \in {"in", "out"}

\* C27: An invocation that bisects [t1, t2] calls itself on up to three
\* pieces in ascending order: [t1, c1] if t1 < c1 < t2, then [c1, c2] if c2
\* lies after the first cut and before t2, then the rest up to t2, where
\* c1, c2 = t1 + (t2 - t1)*s*(1 -+ 0.01*iteration).  Each piece starts where
\* the one before ended, the last one ends at t2.  When a call returns
\* changed, no further piece is processed and the caller's end of the
\* segment is the end that call left; every caller above returns changed too.
ThmC27 ==
    [][pc = "checkhit" =>
          LET Cut(t1, t2, s, pct) == t1 + ((t2 - t1) * s * pct) \div (SDen * 100)
              f == cstack[Len(cstack)]
          IN  /\ crossed'.dir = "cut" =>
                    LET c1 == Cut(call.x1, call.x2, crossed'.s, 100 - crossed'.it)
                        c2 == Cut(call.x1, call.x2, crossed'.s, 100 + crossed'.it)
                        ok1 == call.x1 < c1 /\ c1 < call.x2
                        ok2 == c2 > (IF ok1 THEN c1 ELSE call.x1) /\ c2 < call.x2
                    IN  /\ call'.x1 = call.x1 /\ call'.y1 = call.y1
                        /\ call'.x2 = (IF ok1 THEN c1 ELSE IF ok2 THEN c2 ELSE call.x2)
                        /\ call'.y2 = dense_out(stepper, call'.x2)
              /\ (crossed'.dir # "cut" /\ pc' = "checkhit") =>
                    LET c2 == Cut(f.x1, f.x2, f.s, 100 + f.it)
                        ok2 == c2 > f.xb1 /\ c2 < f.x2
                    IN  /\ call'.x1 = call.x2 /\ call'.y1 = call.y2
                        /\ call'.x1 < call'.x2
                        /\ call'.x2 = (IF f.stage = "A" /\ ok2 THEN c2 ELSE f.x2)
                        /\ call'.y2 = dense_out(stepper, call'.x2)
                        /\ Len(cstack') = (IF f.stage = "A" /\ ok2 THEN Len(cstack)
                                           ELSE Len(cstack) - 1)
              /\ (pc' = "post" /\ ~changed') =>
                    (cstack = <<>> /\ call.x2 = x2 /\ x2' = x2 /\ y2' = y2)
              /\ (pc' = "post" /\ changed') =>
                    /\ cstack' = <<>> /\ call' = NoCall
                    /\ x2' \in {call.x1, call.x2}
                    /\ x2' = call.x2 => y2' = call.y2]_vars

\* the bisection made two valid cuts: the piece before the collision returned
\* unchanged and the piece over the collision is being processed
WitC27 ==
    /\ pc = "checkhit" /\ cstack # <<>>
    /\ cstack[1].stage = "B"
    /\ cstack[1].x1 < cstack[1].xb1 /\ cstack[1].xb1 < cstack[1].xb2
    /\ cstack[1].xb2 < cstack[1].x2
    /\ call.x1 = cstack[1].xb1 /\ call.x2 = cstack[1].xb2

\* C28: After OnHit at a localised crossing the current-solid set follows the
\* verdict of the handler: the entered solid is added, the left one removed,
\* exactly when the particle was let pass; after a reflection the set is what
\* it was.
ThmC28 ==
    [][(pc = "checkhit" /\ crossed'.hit) =>
          currentsolids' = IF ~crossed'.passed THEN currentsolids
                           ELSE IF crossed'.dir = "in"
                           THEN currentsolids \cup {crossed'.ID}
                           ELSE currentsolids \ {crossed'.ID}]_vars

\* OnHit let the particle pass into a solid, which is the active one now
WitC28 ==
    /\ crossed.dir = "in" /\ crossed.hit /\ crossed.passed
    /\ crossed.ID = SetMax(currentsolids) /\ Cardinality(currentsolids) = 3

\* C29: GetSolid(t, p) returns the solid with the highest ID among the
\* solids of GetSolids(t, p) that are not ignored at t, never an ignored one,
\* and the default solid when there is no other solid that is not ignored.
InvC29 ==
    (geom.pc = "queried" /\ geom.query.kind = "solid") =>
        LET IgnoredAt(id) ==
                \E k \in 1..Len(SolidDef(id).ignoretimes) :
                    /\ SolidDef(id).ignoretimes[k][1] <= geom.query.x1
                    /\ geom.query.x1 < SolidDef(id).ignoretimes[k][2]
            live == {geom.found[i].ID : i \in {j \in 1..Len(geom.found) :
                                                  ~geom.found[j].ignored}}
        IN  /\ \A i \in 1..Len(geom.found) :
                   geom.found[i].ID # DefaultID =>
                       (geom.found[i].ignored <=> IgnoredAt(geom.found[i].ID))
            /\ geom.sld \in live
            /\ \A id \in live : id <= geom.sld
            /\ geom.sld # DefaultID => ~IgnoredAt(geom.sld)
            /\ live = {DefaultID} => geom.sld = DefaultID

\* two ignored solids are found, the one with the highest ID behind the
\* other one, and the default solid is returned
WitC29 ==
    /\ geom.pc = "queried" /\ geom.query.kind = "solid"
    /\ Len(geom.found) = 3
    /\ geom.found[2].ignored /\ geom.found[3].ignored
    /\ geom.found[2].ID < geom.found[3].ID
    /\ geom.sld = DefaultID

\* C10: Hmax never decreases.
ThmC10 == [][Hmax' >= Hmax]_vars

\* a piece was processed whose energy is below Hmax
WitC10 ==
    /\ pc = "enditer" /\ ~threw /\ lend > 0
    /\ Ekin(y2.v) + Epot(x, y2, polarisation, field) < Hmax

====
